---- MODULE Spec2Model ----
(***************************************************************************)
(* A model of book-api (src/main.go): process start-up (main, initDB,      *)
(* initTables), the three HTTP handlers (/health, getBooks, getBookByID)   *)
(* and the PostgreSQL objects and rows they read.                          *)
(*                                                                         *)
(* Time is counted in seconds relative to the start of the process; the    *)
(* clock advances in steps of the request timeout.  Rows are stored before *)
(* the process starts (the handlers only read), so their creation          *)
(* timestamps are negative.                                                *)
(***************************************************************************)
EXTENDS Integers, Sequences, FiniteSets, TLC

VARIABLES
    dbURL,          \* os.Getenv("DATABASE_URL")
    mainPc,         \* position of main: "start", "serving" (in ListenAndServe), "fatal" (log.Fatalf)
    db,             \* the package variable db *sqlx.DB: NilDB or Pool
    deferred,       \* calls deferred by main, in registration order
    schema,         \* the tables and indexes that exist in the database
    books,          \* rows of table books
    chapters,       \* rows of table chapters
    provisionLog,   \* one entry per run of initTables: the steps that logged a failure, the schema it left
    startups,       \* how many times the process has been started
    now,            \* time.Now(), seconds
    served,         \* how many requests the server has accepted
    req             \* the latest request: position of its handler, what it asked, what it was answered

vars == <<dbURL, mainPc, db, deferred, schema, books, chapters, provisionLog, startups, now, served, req>>

---------------------------------------------------------------------------
(* Bounds *)

MaxChapters == 2
MaxRequests == 2
MaxClock == 1
MaxStartups == 2

---------------------------------------------------------------------------
(* Program constants *)

TimeoutSeconds == 60

StatusOK == 200
StatusNotFound == 404
StatusInternalServerError == 500
StatusServiceUnavailable == 503
StatusGatewayTimeout == 504

NilDB == "nil"
Pool == "pool"

---------------------------------------------------------------------------
(* Go and database/sql values *)

\* sql.NullString and sql.NullInt32; a nullable column holds one of these
NullString == [Valid |-> FALSE, String |-> ""]
Str(s) == [Valid |-> TRUE, String |-> s]
NullInt32 == [Valid |-> FALSE, Int32 |-> 0]
Int32(n) == [Valid |-> TRUE, Int32 |-> n]

\* a Go slice: nil (encoded by encoding/json as null) or a backing array (encoded as [...])
NilSlice == [isNil |-> TRUE, elems |-> <<>>]
EmptySlice == [isNil |-> FALSE, elems |-> <<>>]
append(s, x) == [isNil |-> FALSE, elems |-> Append(s.elems, x)]
len(s) == Len(s.elems)

---------------------------------------------------------------------------
(* The schema: CREATE TABLE / CREATE INDEX ... IF NOT EXISTS *)

SchemaObjects == {"books", "chapters", "idx_books_author", "idx_chapters_book_id"}
Steps == {"booksTable", "chaptersTable", "indexes"}

\* an index exists only on an existing table
ValidSchemas ==
    {s \in SUBSET SchemaObjects :
        /\ "idx_books_author" \in s => "books" \in s
        /\ "idx_chapters_book_id" \in s => "chapters" \in s}

\* a variant that drops and recreates the table (and with it the index on it)
ExecBooksTableRecreate(s, fails) ==
    IF "booksTable" \in fails THEN [err |-> TRUE, schema |-> s]
    ELSE [err |-> FALSE, schema |-> (s \ {"idx_books_author"}) \union {"books"}]

\* db.Exec(booksTable); fails only for a reason outside the statement (connection, permission, race)
ExecBooksTable(s, fails) ==
    IF "booksTable" \in fails THEN [err |-> TRUE, schema |-> s]
    ELSE [err |-> FALSE, schema |-> s \union {"books"}]

\* db.Exec(chaptersTable); creating the table needs books(id) for its REFERENCES clause
ExecChaptersTable(s, fails) ==
    IF "chaptersTable" \in fails \/ ("chapters" \notin s /\ "books" \notin s)
    THEN [err |-> TRUE, schema |-> s]
    ELSE [err |-> FALSE, schema |-> s \union {"chapters"}]

\* db.Exec(indexes): two statements in one simple query, hence one implicit transaction
ExecIndexes(s, fails) ==
    IF "indexes" \in fails \/ "books" \notin s \/ "chapters" \notin s
    THEN [err |-> TRUE, schema |-> s]
    ELSE [err |-> FALSE, schema |-> s \union {"idx_books_author", "idx_chapters_book_id"}]

\* initTables: the three steps in order, each error logged and otherwise ignored
initTables(s, fails) ==
    LET r1 == ExecBooksTable(s, fails)
        r2 == ExecChaptersTable(r1.schema, fails)
        r3 == ExecIndexes(r2.schema, fails)
    IN [failed |-> {st \in Steps : (st = "booksTable" /\ r1.err)
                                      \/ (st = "chaptersTable" /\ r2.err)
                                      \/ (st = "indexes" /\ r3.err)},
        schema |-> r3.schema]

---------------------------------------------------------------------------
(* Stored rows *)

BookIds == {"B1", "B2"}
RequestIds == {"B1", "B3"}      \* "B3" is never stored

\* a row of books; description stands for the three nullable TEXT columns
\* (description, cover_url, year), all scanned into plain Go strings
BookRow(id, description) ==
    [id |-> id, title |-> "title " \o id, author |-> "author " \o id,
     description |-> description,
     created_at |-> IF id = "B1" THEN 0 - 20 ELSE 0 - 10]

BookRows(id) == {BookRow(id, NullString), BookRow(id, Str("about " \o id))}

\* a row of chapters; the k-th chapter was inserted k seconds before the
\* process started; odd chapters have their optional columns set, even ones NULL
ChapterRow(k, bookId, orderNum) ==
    [id |-> "c" \o ToString(k), book_id |-> bookId, title |-> "chapter " \o ToString(k),
     summary |-> IF k % 2 = 1 THEN Str("summary " \o ToString(k)) ELSE NullString,
     audio_url |-> IF k % 2 = 1 THEN Str("audio " \o ToString(k)) ELSE NullString,
     order_num |-> orderNum,
     created_at |-> 0 - k]

OrderNums == {NullInt32, Int32(0), Int32(1)}

\* what the k-th chapter can be: a chapter of B1 at any position, or a chapter of B2
ChapterRows(k) ==
    {ChapterRow(k, "B1", o) : o \in OrderNums} \union {ChapterRow(k, "B2", Int32(0))}

\* the contents a database can have: at most one row per key, every chapter
\* references a stored book, rows only in tables that exist
BookTables ==
    {bs \in SUBSET (UNION {BookRows(id) : id \in BookIds}) :
        \A x, y \in bs : x.id = y.id => x = y}

ChapterTables(bs) ==
    LET Absent == [id |-> ""]
        Choices(k) == {Absent} \union {c \in ChapterRows(k) : \E b \in bs : b.id = c.book_id}
        Tables == {[k \in 1..MaxChapters |-> Absent]} \union
                  {t \in [1..MaxChapters -> UNION {Choices(k) : k \in 1..MaxChapters}] :
                      \A k \in 1..MaxChapters : t[k] \in Choices(k)}
    IN {{t[k] : k \in {j \in 1..MaxChapters : t[j] # Absent}} : t \in Tables}

---------------------------------------------------------------------------
(* Queries *)

\* the orders in which a query can return the rows S: all of them, once each
Perms(S) ==
    {f \in [1..Cardinality(S) -> S] :
        \A i, j \in 1..Cardinality(S) : i # j => f[i] # f[j]}

\* ORDER BY created_at DESC
CreatedAtDesc(x, y) == x.created_at >= y.created_at

\* ORDER BY c.order_num ASC: PostgreSQL sorts NULL after every value
OrderNumAsc(x, y) ==
    \/ ~y.OrderNum.Valid
    \/ x.OrderNum.Valid /\ x.OrderNum.Int32 <= y.OrderNum.Int32

\* what an ORDER BY may return: any order that respects the sort key (rows
\* that compare equal come in arbitrary order)
BooksByCreatedAtDesc(bs) ==
    {f \in Perms(bs) : \A i, j \in 1..Cardinality(bs) : i < j => CreatedAtDesc(f[i], f[j])}

RowsByOrderNumAsc(rows) ==
    {f \in Perms(rows) : \A i, j \in 1..Cardinality(rows) : i < j => OrderNumAsc(f[i], f[j])}

\* rows.Scan into a Book: a NULL cannot be stored in a Go string
ScanFails(b) == ~b.description.Valid

\* the Book a row of books scans to (Chapters has db:"-")
ScanBook(b) ==
    [ID |-> b.id, Title |-> b.title, Author |-> b.author,
     Description |-> b.description.String, Chapters |-> NilSlice,
     CreatedAt |-> b.created_at]

QueryError == [err |-> TRUE, rows |-> <<>>]
QueryOk(rows) == [err |-> FALSE, rows |-> rows]

\* db.Select(&books, SELECT ... FROM books ORDER BY created_at DESC)
SelectBooks(s, bs) ==
    IF "books" \notin s \/ \E b \in bs : ScanFails(b)
    THEN {QueryError}
    ELSE {QueryOk([i \in 1..Cardinality(bs) |-> ScanBook(sorted[i])]) :
            sorted \in BooksByCreatedAtDesc(bs)}

\* the row of the LEFT JOIN for book b and chapter c
JoinRow(b, c) ==
    [Book |-> ScanBook(b),
     ChapterID |-> Str(c.id), ChapterTitle |-> Str(c.title),
     ChapterSummary |-> c.summary, AudioURL |-> c.audio_url, OrderNum |-> c.order_num]

\* the row of the LEFT JOIN for a book without chapters
JoinRowNoChapter(b) ==
    [Book |-> ScanBook(b),
     ChapterID |-> NullString, ChapterTitle |-> NullString,
     ChapterSummary |-> NullString, AudioURL |-> NullString, OrderNum |-> NullInt32]

\* a variant with an inner JOIN: a book without chapters has no row
JoinRowsInner(bs, cs, bookID) ==
    UNION {{JoinRow(b, c) : c \in {x \in cs : x.book_id = b.id}} : b \in {x \in bs : x.id = bookID}}

\* FROM books b LEFT JOIN chapters c ON b.id = c.book_id WHERE b.id = $1
JoinRows(bs, cs, bookID) ==
    UNION {IF \E c \in cs : c.book_id = b.id
           THEN {JoinRow(b, c) : c \in {x \in cs : x.book_id = b.id}}
           ELSE {JoinRowNoChapter(b)} : b \in {x \in bs : x.id = bookID}}

\* db.Select(&rows, SELECT ... LEFT JOIN ... WHERE b.id = $1 ORDER BY c.order_num ASC, bookID)
SelectBookWithChapters(s, bs, cs, bookID) ==
    IF "books" \notin s \/ "chapters" \notin s \/ \E b \in bs : b.id = bookID /\ ScanFails(b)
    THEN {QueryError}
    ELSE {QueryOk(rows) : rows \in RowsByOrderNumAsc(JoinRows(bs, cs, bookID))}

---------------------------------------------------------------------------
(* Responses *)

NoResponse == [status |-> 0, kind |-> "none"]

\* http.Error(w, text, code)
Error(text, code) == [status |-> code, kind |-> "text", text |-> text]

\* json.NewEncoder(w).Encode(v): the first Write sends status 200
Encode(json) == [status |-> StatusOK, kind |-> "json", json |-> json]

\* w.WriteHeader(code) is ignored once the header has been written
WriteHeader(resp, code) == IF resp.status # 0 THEN resp ELSE [resp EXCEPT !.status = code]

\* middleware.Timeout: the request context gets a deadline; when the handler
\* has returned, 504 is written if the deadline has passed
DeadlineExceeded(start, t) == t >= start + TimeoutSeconds
Timeout(resp, start, t) ==
    IF DeadlineExceeded(start, t) THEN WriteHeader(resp, StatusGatewayTimeout) ELSE resp

\* encoding/json of a slice, a Chapter and a Book (field names are the json tags)
JSONChapter(c) ==
    [id |-> c.ID, bookId |-> c.BookID, title |-> c.Title, summary |-> c.Summary,
     audioUrl |-> c.AudioURL, orderNum |-> c.OrderNum, createdAt |-> c.CreatedAt]

JSONChapters(s) == [null |-> s.isNil, array |-> [i \in 1..len(s) |-> JSONChapter(s.elems[i])]]

JSONBook(b) ==
    [id |-> b.ID, title |-> b.Title, author |-> b.Author, description |-> b.Description,
     chapters |-> JSONChapters(b.Chapters), createdAt |-> b.CreatedAt]

JSONBooks(s) == [null |-> s.isNil, array |-> [i \in 1..len(s) |-> JSONBook(s.elems[i])]]

---------------------------------------------------------------------------
(* Handlers *)

\* what sqlx leaves in a nil destination slice: nil when the query returned no row
Scanned(rows) == IF Len(rows) = 0 THEN NilSlice ELSE [isNil |-> FALSE, elems |-> rows]

\* a variant without the replacement of an empty result by []Book{}
getBooksRespondNoEmpty(res) ==
    IF res.err THEN Error("Failed to fetch books", StatusInternalServerError)
    ELSE Encode(JSONBooks(Scanned(res.rows)))

\* getBooks after db.Select has returned res
getBooksRespond(res) ==
    IF res.err THEN Error("Failed to fetch books", StatusInternalServerError)
    ELSE LET scanned == Scanned(res.rows)
             result == IF len(scanned) = 0 THEN EmptySlice ELSE scanned
         IN Encode(JSONBooks(result))

\* a variant with the summary and audio columns exchanged
ChapterOfSwapped(row, bookID, t) ==
    [ID |-> row.ChapterID.String, BookID |-> bookID, Title |-> row.ChapterTitle.String,
     Summary |-> row.AudioURL.String, AudioURL |-> row.ChapterSummary.String,
     OrderNum |-> row.OrderNum.Int32, CreatedAt |-> t]

\* the Chapter built from a row whose ChapterID is valid, at time t
ChapterOf(row, bookID, t) ==
    [ID |-> row.ChapterID.String, BookID |-> bookID, Title |-> row.ChapterTitle.String,
     Summary |-> row.ChapterSummary.String, AudioURL |-> row.AudioURL.String,
     OrderNum |-> row.OrderNum.Int32, CreatedAt |-> t]

\* the loop over rows: chapters starts as a nil slice
RECURSIVE CollectChapters(_, _, _, _)
CollectChapters(rows, i, bookID, t) ==
    IF i = 0 THEN NilSlice
    ELSE LET sofar == CollectChapters(rows, i - 1, bookID, t)
         IN IF rows[i].ChapterID.Valid
            THEN append(sofar, ChapterOf(rows[i], bookID, t))
            ELSE sofar

\* a variant that tests len(rows) before err
getBookByIDRespondLenFirst(res, bookID, t) ==
    IF Len(res.rows) = 0 THEN Error("Book not found", StatusNotFound)
    ELSE IF res.err THEN Error("Failed to fetch book", StatusInternalServerError)
    ELSE LET chapters_ == CollectChapters(res.rows, Len(res.rows), bookID, t)
             book == [res.rows[1].Book EXCEPT !.Chapters = chapters_]
         IN Encode(JSONBook(book))

\* getBookByID after db.Select has returned res, at time t
getBookByIDRespond(res, bookID, t) ==
    IF res.err THEN Error("Failed to fetch book", StatusInternalServerError)
    ELSE IF Len(res.rows) = 0 THEN Error("Book not found", StatusNotFound)
    ELSE LET chapters_ == CollectChapters(res.rows, Len(res.rows), bookID, t)
             book == [res.rows[1].Book EXCEPT !.Chapters = chapters_]
         IN Encode(JSONBook(book))

\* GET /health
healthRespond(t) == Encode([status |-> "healthy", message |-> "API is running smoothly", time |-> t])

Idle == [pc |-> "idle", route |-> "", id |-> "", start |-> 0, queries |-> 0,
         res |-> QueryOk(<<>>), resp |-> NoResponse]

---------------------------------------------------------------------------
(* Initial states *)

Init ==
    /\ dbURL \in {"", "postgres://db"}
    /\ mainPc = "start"
    /\ db = NilDB
    /\ deferred = <<>>
    /\ schema \in ValidSchemas
    /\ books \in BookTables
    /\ chapters \in ChapterTables(books)
    \* rows only in a fully provisioned database
    /\ (books # {} => schema = SchemaObjects)
    /\ provisionLog = <<>>
    /\ startups = 1
    /\ now = 0
    /\ served = 0
    /\ req = Idle

---------------------------------------------------------------------------
(* Process start-up *)

\* main up to the call of http.ListenAndServe
Startup ==
    /\ mainPc = "start"
    /\ IF dbURL = ""
       THEN /\ mainPc' = "serving"
            /\ UNCHANGED <<db, deferred, schema, provisionLog>>
       ELSE \E connected \in BOOLEAN :
              IF ~connected
              THEN \* initDB: sqlx.Connect failed, log.Fatalf
                   /\ mainPc' = "fatal"
                   /\ UNCHANGED <<db, deferred, schema, provisionLog>>
              ELSE \E fails \in SUBSET Steps :
                     LET run == initTables(schema, fails)
                     IN /\ db' = Pool
                        /\ deferred' = Append(deferred, "db.Close")
                        /\ schema' = run.schema
                        /\ provisionLog' = Append(provisionLog, run)
                        /\ mainPc' = "serving"
    /\ UNCHANGED <<dbURL, books, chapters, startups, now, served, req>>

\* http.ListenAndServe cannot bind the port and returns an error: log.Fatalf
\* exits without running the deferred calls
ListenAndServeFails ==
    /\ mainPc = "serving"
    /\ served = 0
    /\ now = 0
    /\ mainPc' = "fatal"
    /\ UNCHANGED <<dbURL, db, deferred, schema, books, chapters, provisionLog, startups, now, served, req>>

\* the exited process is started again (a new process: fresh globals, same environment and database)
Restart ==
    /\ mainPc = "fatal"
    /\ startups < MaxStartups
    /\ startups' = startups + 1
    /\ mainPc' = "start"
    /\ db' = NilDB
    /\ deferred' = <<>>
    /\ now' = 0
    /\ served' = 0
    /\ req' = Idle
    /\ UNCHANGED <<dbURL, schema, books, chapters, provisionLog>>

\* time passes while the server is listening
Tick ==
    /\ mainPc = "serving"
    /\ now < MaxClock * TimeoutSeconds
    /\ now' = now + TimeoutSeconds
    /\ UNCHANGED <<dbURL, mainPc, db, deferred, schema, books, chapters, provisionLog, startups, served, req>>

---------------------------------------------------------------------------
(* Requests.  Handlers share nothing but the handle db, which no handler    *)
(* writes, so requests are taken one after the other.                       *)

\* the server accepts a request
Accepts ==
    /\ mainPc = "serving"
    /\ req.pc \in {"idle", "done"}
    /\ served < MaxRequests
    /\ served' = served + 1

\* the handler returns, then middleware.Timeout's deferred function runs
Done(resp, res) ==
    [req EXCEPT !.pc = "done", !.res = res, !.resp = Timeout(resp, req.start, now)]

\* GET /health
health ==
    /\ Accepts
    /\ req' = [Idle EXCEPT !.pc = "done", !.route = "/health", !.start = now,
                           !.resp = healthRespond(now)]
    /\ UNCHANGED <<dbURL, mainPc, db, deferred, schema, books, chapters, provisionLog, startups, now>>

\* a variant without the test db == nil
BeginNoNilCheck(route, id) ==
    [Idle EXCEPT !.pc = "select", !.route = route, !.id = id, !.start = now, !.queries = 1]

\* a handler up to the point where it blocks in db.Select
Begin(route, id) ==
    IF db = NilDB
    THEN [Idle EXCEPT !.pc = "done", !.route = route, !.id = id, !.start = now,
                      !.resp = Error("Database connection is not available", StatusServiceUnavailable)]
    ELSE [Idle EXCEPT !.pc = "select", !.route = route, !.id = id, !.start = now, !.queries = 1]

\* GET /api/books: getBooks up to db.Select
getBooks ==
    /\ Accepts
    /\ req' = Begin("/api/books", "")
    /\ UNCHANGED <<dbURL, mainPc, db, deferred, schema, books, chapters, provisionLog, startups, now>>

\* getBooks from the return of db.Select; the query may also fail for a
\* reason outside the statement
getBooksSelectReturns ==
    /\ mainPc = "serving"
    /\ req.pc = "select"
    /\ req.route = "/api/books"
    /\ \E res \in SelectBooks(schema, books) \union {QueryError} :
         req' = Done(getBooksRespond(res), res)
    /\ UNCHANGED <<dbURL, mainPc, db, deferred, schema, books, chapters, provisionLog, startups, now, served>>

\* GET /api/books/{id}: getBookByID up to db.Select
getBookByID(id) ==
    /\ Accepts
    /\ req' = Begin("/api/books/{id}", id)
    /\ UNCHANGED <<dbURL, mainPc, db, deferred, schema, books, chapters, provisionLog, startups, now>>

\* getBookByID from the return of db.Select
getBookByIDSelectReturns ==
    /\ mainPc = "serving"
    /\ req.pc = "select"
    /\ req.route = "/api/books/{id}"
    /\ \E res \in SelectBookWithChapters(schema, books, chapters, req.id) \union {QueryError} :
         req' = Done(getBookByIDRespond(res, req.id, now), res)
    /\ UNCHANGED <<dbURL, mainPc, db, deferred, schema, books, chapters, provisionLog, startups, now, served>>

---------------------------------------------------------------------------
(* Specifications *)

\* one life of the process, serving requests
Next ==
    \/ Startup
    \/ ListenAndServeFails
    \/ Tick
    \/ health
    \/ getBooks
    \/ getBooksSelectReturns
    \/ \E id \in RequestIds : getBookByID(id)
    \/ getBookByIDSelectReturns

Spec == Init /\ [][Next]_vars

\* the process started again and again against the same database
InitSchema == Init /\ chapters = {}

NextSchema ==
    \/ Startup
    \/ ListenAndServeFails
    \/ Restart

SpecSchema == InitSchema /\ [][NextSchema]_vars

---------------------------------------------------------------------------
(* Properties *)

BookRoute == "/api/books/{id}"
ListRoute == "/api/books"

Answered(route) == req.pc = "done" /\ req.route = route
Stored(id) == \E b \in books : b.id = id
ChaptersOf(id) == {c \in chapters : c.book_id = id}
Returned == req.resp.json.chapters

\* C1: a stored book without chapters, fetched by a query that succeeds, is
\* answered 200 with a chapter sequence that is empty and not null
C1_EmptyNotNull ==
    (Answered(BookRoute) /\ req.queries = 1 /\ ~req.res.err
        /\ Stored(req.id) /\ ChaptersOf(req.id) = {})
    => /\ req.resp.status = StatusOK
       /\ ~Returned.null
       /\ Returned.array = <<>>

\* C2: with a pool and a query that succeeds, an identifier that matches no
\* stored book is answered 404; and 404 is answered only when the query
\* returned no row, never for a stored book
C2_NotFound ==
    Answered(BookRoute) =>
        /\ (req.queries = 1 /\ ~req.res.err /\ ~Stored(req.id)) => req.resp.status = StatusNotFound
        /\ req.resp.status = StatusNotFound =>
              (~req.res.err /\ Len(req.res.rows) = 0 /\ ~Stored(req.id))

C2_Witness ==
    /\ Answered(BookRoute)
    /\ req.resp.status = StatusNotFound
    /\ books # {}

\* C3: the chapters returned are in non-decreasing order of the position
\* each of them carries
C3_SortedByOrderNum ==
    (Answered(BookRoute) /\ req.resp.status = StatusOK) =>
        \A i, j \in 1..Len(Returned.array) :
            i < j => Returned.array[i].orderNum <= Returned.array[j].orderNum

\* C4: the chapters returned are, in row order, exactly the rows whose
\* chapter identifier is not null, each with the chapter fields of its row,
\* and the book fields are those of the first row
C4_OneChapterPerValidRow ==
    (Answered(BookRoute) /\ req.resp.status = StatusOK) =>
        LET rows == req.res.rows
            valid == SelectSeq(rows, LAMBDA row : row.ChapterID.Valid)
            json == req.resp.json
        IN /\ Len(rows) > 0
           /\ Len(json.chapters.array) = Len(valid)
           /\ \A i \in 1..Len(valid) :
                /\ json.chapters.array[i].id = valid[i].ChapterID.String
                /\ json.chapters.array[i].bookId = req.id
                /\ json.chapters.array[i].title = valid[i].ChapterTitle.String
                /\ json.chapters.array[i].summary = valid[i].ChapterSummary.String
                /\ json.chapters.array[i].audioUrl = valid[i].AudioURL.String
                /\ json.chapters.array[i].orderNum = valid[i].OrderNum.Int32
           /\ json.id = rows[1].Book.ID
           /\ json.title = rows[1].Book.Title
           /\ json.author = rows[1].Book.Author
           /\ json.description = rows[1].Book.Description
           /\ json.createdAt = rows[1].Book.CreatedAt

C4_Witness ==
    /\ Answered(BookRoute)
    /\ req.resp.status = StatusOK
    /\ Len(Returned.array) = 2
    /\ Returned.array[1].summary # Returned.array[2].summary

\* C5: without DATABASE_URL no pool is created, initTables does not run and
\* no Close is deferred; the server starts; every answer of the two /api
\* routes is 503 and no query is issued; /health answers 200; the process
\* does not exit once it serves
C5_DegradedState ==
    (dbURL = "" /\ mainPc # "start") =>
        /\ db = NilDB
        /\ provisionLog = <<>>
        /\ deferred = <<>>
        /\ req.pc # "select"
        /\ req.queries = 0
        /\ Answered(ListRoute) => req.resp.status = StatusServiceUnavailable
        /\ Answered(BookRoute) => req.resp.status = StatusServiceUnavailable
        /\ Answered("/health") => req.resp.status = StatusOK
        /\ served > 0 => mainPc = "serving"

\* C5: the degraded state above holds throughout, and start-up without
\* DATABASE_URL always ends with the server listening
C5_Degraded ==
    /\ []C5_DegradedState
    /\ [][(dbURL = "" /\ mainPc = "start") => mainPc' = "serving"]_vars

C5_Witness ==
    /\ dbURL = ""
    /\ served = MaxRequests
    /\ Answered(BookRoute)
    /\ req.resp.status = StatusServiceUnavailable

\* C6: the answer of /api/books/{id} is 503 without a pool, else 500 when
\* the query failed, else 404 when it returned no row, else 200; a request
\* issues at most one query, none without a pool; answering leaves the
\* process running and the pool handle as it was
C6_OutcomeState ==
    /\ req.route = BookRoute => req.queries = (IF db = NilDB THEN 0 ELSE 1)
    /\ Answered(BookRoute) =>
          req.resp.status = (IF db = NilDB THEN StatusServiceUnavailable
                             ELSE IF req.res.err THEN StatusInternalServerError
                             ELSE IF Len(req.res.rows) = 0 THEN StatusNotFound
                             ELSE StatusOK)

\* C6: the outcome above holds throughout, and a step of a request to
\* /api/books/{id} leaves the process serving and the pool handle unchanged
C6_Outcome ==
    /\ []C6_OutcomeState
    /\ [][(req' # req /\ req'.route = BookRoute) => (mainPc' = "serving" /\ db' = db)]_vars

C6_Witness ==
    /\ Answered(BookRoute)
    /\ req.resp.status = StatusInternalServerError
    /\ Stored(req.id)
    /\ served = MaxRequests

\* C7: no request is still waiting for its query once its deadline has passed
C7_AbortedAtDeadline ==
    req.pc = "select" => ~DeadlineExceeded(req.start, now)

\* C8 as claimed: with a pool and no row in books, getBooks answers 200 and []
C8_EmptyList ==
    (Answered(ListRoute) /\ db = Pool /\ "books" \in schema /\ books = {}) =>
        /\ req.resp.status = StatusOK
        /\ req.resp.json = [null |-> FALSE, array |-> <<>>]

\* C8 as amended: with a pool, no row in books and a query that succeeds,
\* getBooks answers 200 and []
C8_EmptyListWhenQuerySucceeds ==
    (Answered(ListRoute) /\ db = Pool /\ "books" \in schema /\ books = {} /\ ~req.res.err) =>
        /\ req.resp.status = StatusOK
        /\ req.resp.json = [null |-> FALSE, array |-> <<>>]

C8_Witness ==
    /\ Answered(ListRoute)
    /\ db = Pool
    /\ "books" \in schema
    /\ books = {}
    /\ ~req.res.err

\* C9 as claimed: after any number of runs of initTables, failing steps or
\* not, the schema is the one the first run left
C9_Idempotent ==
    Len(provisionLog) >= 1 => schema = provisionLog[1].schema

\* C9 as amended: when no step of the first run failed, the schema stays the
\* one the first run left, whatever the later runs do; and no step, failing
\* or not, removes an object or touches a row
C9_IdempotentAfterCleanRun ==
    /\ []((Len(provisionLog) >= 1 /\ provisionLog[1].failed = {}) => schema = provisionLog[1].schema)
    /\ [][schema \subseteq schema' /\ books' = books /\ chapters' = chapters]_vars

C9_Witness ==
    /\ Len(provisionLog) >= 2
    /\ provisionLog[1].failed = {}
    /\ provisionLog[Len(provisionLog)].failed # {}

\* C10: every chapter returned carries the creation timestamp stored for it
C10_StoredCreatedAt ==
    (Answered(BookRoute) /\ req.resp.status = StatusOK) =>
        \A i \in 1..Len(Returned.array) :
            \E c \in chapters : /\ c.id = Returned.array[i].id
                                /\ c.created_at = Returned.array[i].createdAt

====
